---- MODULE Spec2Model ----
(***************************************************************************)
(* Model of huffmanEncoder.c: an array-backed min-heap of tree nodes, the  *)
(* Huffman tree construction driven by it, and the traversal that prints   *)
(* one code per leaf.                                                      *)
(*                                                                         *)
(* Memory model.  Every struct MinHeapNode that malloc returns is an entry *)
(* of the sequence `nodes`; a pointer to a node is its index, NULL is 0.   *)
(* nodeArray is a function on 0 .. capacity-1.  An access outside of it    *)
(* is undefined behaviour: the step then either crashes (pc = "crashed")   *)
(* or goes on with indeterminate values (pc = "undefined"), and the model  *)
(* follows the run no further.  A weight is a 32-bit int: the addition of  *)
(* line 157 wraps around, as the add instruction it compiles to does.      *)
(***************************************************************************)
EXTENDS Integers, Sequences, FiniteSets

VARIABLES
    data,        \* char data[]  : the caller's symbols            (1-based here)
    freq,        \* int  freq[]  : the caller's frequencies        (1-based here)
    size,        \* int  size    : the caller's entry count
    nodes,       \* every allocated struct MinHeapNode, by address
    minHeap,     \* struct MinHeap: size, capacity, nodeArray
    left,        \* buildHuffmanTree's local `left`
    right,       \* buildHuffmanTree's local `right`
    root,        \* getHuffmanCodes' local `root`
    treeHeight,  \* getHuffmanCodes' local `treeHeight`
    code,        \* getHuffmanCodes' buffer int code[treeHeight-1]
    output,      \* the lines printCodes printed: <<symbol, bits>> records
    visited,     \* the nodes printCodes was called on, in call order
    accessed,    \* the indices of code[] that printCodes wrote or read
    extracts,    \* number of extractMin calls made by buildHuffmanTree
    inserts,     \* number of insertMinHeap calls made by buildHuffmanTree
    ret,         \* the pointer the last extractMin call returned
    oob,         \* nodeArray indices written outside 0 .. capacity-1
    op,          \* the heap operation performed last
    pc           \* the position of the control flow

vars == <<data, freq, size, nodes, minHeap, left, right, root, treeHeight,
          code, output, visited, accessed, extracts, inserts, ret, oob, op, pc>>

----------------------------------------------------------------------------
(* Bounds of the model *)

MaxN == 4
MaxFreq == 2
MaxHeapFreq == 2
MaxInserts == 5

(* Program constants *)

NULL == 0
GARBAGE == -1
INT_MAX == 2147483647
INTERNAL == "#"

Alphabet == <<"a", "b", "c", "d", "e", "f", "g", "h">>

DriverData == <<"a", "b", "c", "d", "e", "f">>
DriverFreq == <<5, 9, 12, 13, 16, 45>>

----------------------------------------------------------------------------
(* Arithmetic and array helpers *)

\* C's integer division truncates toward zero
CDiv(a, b) == IF a >= 0 THEN a \div b ELSE -((-a) \div b)

max(a, b) == IF a > b THEN a ELSE b

\* a + b in 32-bit int arithmetic: a sum beyond INT_MAX or below INT_MIN wraps
\* around (a + b - 2^32, a + b + 2^32), computed without leaving the int range
IntAdd(a, b) ==
    IF a >= 0 /\ b >= 0 /\ a > INT_MAX - b
    THEN (a - INT_MAX - 1) + (b - INT_MAX - 1)
    ELSE IF a < 0 /\ b < 0 /\ a < (-INT_MAX - 1) - b
         THEN (a + INT_MAX + 1) + (b + INT_MAX + 1)
         ELSE a + b

\* a store to arr[i]; a store outside of the array does not change the array
Put(arr, i, v) == IF i \in DOMAIN arr THEN [arr EXCEPT ![i] = v] ELSE arr

\* a load of arr[i]; a load outside of the array yields an indeterminate value
Get(arr, i) == IF i \in DOMAIN arr THEN arr[i] ELSE GARBAGE

----------------------------------------------------------------------------
(* Nodes and the heap *)

newMinHeapNode(d, f) == [data |-> d, freq |-> f, left |-> NULL, right |-> NULL]

createMinHeap(sz) ==
    [size |-> 0, capacity |-> sz, nodeArray |-> [i \in 0 .. sz - 1 |-> GARBAGE]]

swapMinHeapNodes(arr, i, j) == [arr EXCEPT ![i] = arr[j], ![j] = arr[i]]

\* minHeapify that never looks at the right child
RECURSIVE minHeapifyLeftOnly(_, _, _)
minHeapifyLeftOnly(ns, h, idx) ==
    LET l  == 2 * idx + 1
        m1 == IF l < h.size /\ ns[h.nodeArray[l]].freq < ns[h.nodeArray[idx]].freq
              THEN l ELSE idx
    IN  IF m1 # idx
        THEN minHeapifyLeftOnly(ns, [h EXCEPT !.nodeArray = swapMinHeapNodes(@, m1, idx)], m1)
        ELSE h

RECURSIVE minHeapify(_, _, _)
minHeapify(ns, h, idx) ==
    LET l  == 2 * idx + 1
        r  == 2 * idx + 2
        m1 == IF l < h.size /\ ns[h.nodeArray[l]].freq < ns[h.nodeArray[idx]].freq
              THEN l ELSE idx
        m2 == IF r < h.size /\ ns[h.nodeArray[r]].freq < ns[h.nodeArray[m1]].freq
              THEN r ELSE m1
    IN  IF m2 # idx
        THEN minHeapify(ns, [h EXCEPT !.nodeArray = swapMinHeapNodes(@, m2, idx)], m2)
        ELSE h

\* extractMin that forgets to sink the new root
extractMinNoHeapify(ns, h) ==
    [heap |-> [h EXCEPT !.nodeArray[0] = h.nodeArray[h.size - 1], !.size = @ - 1],
     ret  |-> h.nodeArray[0]]

\* extractMin that forgets to shrink the heap
extractMinNoShrink(ns, h) ==
    [heap |-> minHeapify(ns, [h EXCEPT !.nodeArray[0] = h.nodeArray[h.size - 1]], 0),
     ret  |-> h.nodeArray[0]]

\* extractMin that hands out the last node instead of the root
extractMinReturnsLast(ns, h) ==
    [heap |-> [h EXCEPT !.size = @ - 1], ret |-> h.nodeArray[h.size - 1]]

\* extractMin on a heap with size >= 1: the heap it leaves and the node it returns
extractMin(ns, h) ==
    LET temp == h.nodeArray[0]
        h1   == [h EXCEPT !.nodeArray[0] = h.nodeArray[h.size - 1], !.size = @ - 1]
    IN  [heap |-> minHeapify(ns, h1, 0), ret |-> temp]

\* extractMin on a heap with size <= 0 that does not crash: nodeArray[size-1] is
\* read outside of the array (g2), nodeArray[0] too when capacity is 0 (g1)
extractMinUnderflow(h, g1, g2) ==
    [heap |-> [h EXCEPT !.nodeArray = Put(@, 0, g2), !.size = @ - 1],
     ret  |-> IF 0 \in DOMAIN h.nodeArray THEN h.nodeArray[0] ELSE g1]

RECURSIVE insertLoop(_, _, _, _)
insertLoop(ns, arr, i, node) ==
    LET p == CDiv(i - 1, 2)
    IN  IF i # 0 /\ ns[Get(arr, p)].freq > ns[node].freq
        THEN insertLoop(ns, Put(arr, i, Get(arr, p)), p, node)
        ELSE Put(arr, i, node)

\* insertMinHeap that appends without growing the heap
insertMinHeapNoGrow(ns, h, node) ==
    [h EXCEPT !.nodeArray = insertLoop(ns, @, h.size, node)]

\* insertMinHeap; the first slot it stores to is nodeArray[old size]
insertMinHeap(ns, h, node) ==
    [h EXCEPT !.size = @ + 1, !.nodeArray = insertLoop(ns, @, h.size, node)]

\* a bottom-up loop that stops before the root
RECURSIVE buildLoopSkipRoot(_, _, _)
buildLoopSkipRoot(ns, h, i) ==
    IF i > 0 THEN buildLoopSkipRoot(ns, minHeapify(ns, h, i), i - 1) ELSE h

\* the loop of lines 121-123, from index i down to 0
RECURSIVE buildLoop(_, _, _)
buildLoop(ns, h, i) ==
    IF i >= 0 THEN buildLoop(ns, minHeapify(ns, h, i), i - 1) ELSE h

\* the index the loop of line 121 starts at
buildStart(h) ==
    LET n == h.size - 1
    IN  CDiv(n - 1, 2)

buildMinHeap(ns, h) == buildLoop(ns, h, buildStart(h))

\* the nodes createAndBuildMinHeap allocates, one per entry, in entry order
leafNodes(d, f, sz) == [i \in 1 .. sz |-> newMinHeapNode(d[i], f[i])]

createAndBuildMinHeap(d, f, sz) ==
    LET ns == leafNodes(d, f, sz)
        h0 == createMinHeap(sz)
        h1 == [h0 EXCEPT !.nodeArray = [i \in 0 .. sz - 1 |-> i + 1], !.size = sz]
    IN  buildMinHeap(ns, h1)

----------------------------------------------------------------------------
(* The tree and the traversal *)

isLeaf(ns, r) == ns[r].left = NULL /\ ns[r].right = NULL

\* a height that follows the shallower subtree
RECURSIVE huffmanTreeHeightMin(_, _)
huffmanTreeHeightMin(ns, r) ==
    IF r = NULL THEN 0
    ELSE LET hl == huffmanTreeHeightMin(ns, ns[r].left)
             hr == huffmanTreeHeightMin(ns, ns[r].right)
         IN  1 + (IF hl < hr THEN hl ELSE hr)

RECURSIVE huffmanTreeHeight(_, _)
huffmanTreeHeight(ns, r) ==
    IF r = NULL THEN 0
    ELSE 1 + max(huffmanTreeHeight(ns, ns[r].left), huffmanTreeHeight(ns, ns[r].right))

\* printCodes that stores 1 for the left branch and 0 for the right branch
RECURSIVE printCodesSwapped(_, _, _, _)
printCodesSwapped(ns, r, st, idx) ==
    LET s0 == [st EXCEPT !.visited = Append(@, r)]
        s1 == IF ns[r].left # NULL
              THEN printCodesSwapped(ns, ns[r].left,
                              [s0 EXCEPT !.code = Put(@, idx, 1),
                                         !.accessed = @ \cup {idx}], idx + 1)
              ELSE s0
        s2 == IF ns[r].right # NULL
              THEN printCodesSwapped(ns, ns[r].right,
                              [s1 EXCEPT !.code = Put(@, idx, 0),
                                         !.accessed = @ \cup {idx}], idx + 1)
              ELSE s1
    IN  IF isLeaf(ns, r)
        THEN [s2 EXCEPT !.output = Append(@, [data |-> ns[r].data,
                                              code |-> [i \in 1 .. idx |-> Get(s2.code, i - 1)]]),
                        !.accessed = @ \cup (0 .. idx - 1)]
        ELSE s2

\* printCodes that stores bit 0 for the right branch too
RECURSIVE printCodesSameBit(_, _, _, _)
printCodesSameBit(ns, r, st, idx) ==
    LET s0 == [st EXCEPT !.visited = Append(@, r)]
        s1 == IF ns[r].left # NULL
              THEN printCodesSameBit(ns, ns[r].left,
                              [s0 EXCEPT !.code = Put(@, idx, 0),
                                         !.accessed = @ \cup {idx}], idx + 1)
              ELSE s0
        s2 == IF ns[r].right # NULL
              THEN printCodesSameBit(ns, ns[r].right,
                              [s1 EXCEPT !.code = Put(@, idx, 0),
                                         !.accessed = @ \cup {idx}], idx + 1)
              ELSE s1
    IN  IF isLeaf(ns, r)
        THEN [s2 EXCEPT !.output = Append(@, [data |-> ns[r].data,
                                              code |-> [i \in 1 .. idx |-> Get(s2.code, i - 1)]]),
                        !.accessed = @ \cup (0 .. idx - 1)]
        ELSE s2

\* printCodes whose print loop runs to i <= idx
RECURSIVE printCodesOffByOne(_, _, _, _)
printCodesOffByOne(ns, r, st, idx) ==
    LET s0 == [st EXCEPT !.visited = Append(@, r)]
        s1 == IF ns[r].left # NULL
              THEN printCodesOffByOne(ns, ns[r].left,
                              [s0 EXCEPT !.code = Put(@, idx, 0),
                                         !.accessed = @ \cup {idx}], idx + 1)
              ELSE s0
        s2 == IF ns[r].right # NULL
              THEN printCodesOffByOne(ns, ns[r].right,
                              [s1 EXCEPT !.code = Put(@, idx, 1),
                                         !.accessed = @ \cup {idx}], idx + 1)
              ELSE s1
    IN  IF isLeaf(ns, r)
        THEN [s2 EXCEPT !.output = Append(@, [data |-> ns[r].data,
                                              code |-> [i \in 1 .. idx + 1 |-> Get(s2.code, i - 1)]]),
                        !.accessed = @ \cup (0 .. idx)]
        ELSE s2

\* the state printCodes works on: the shared buffer, what was printed so far,
\* the calls made so far and the buffer indices touched so far
RECURSIVE printCodes(_, _, _, _)
printCodes(ns, r, st, idx) ==
    LET s0 == [st EXCEPT !.visited = Append(@, r)]
        s1 == IF ns[r].left # NULL
              THEN printCodes(ns, ns[r].left,
                              [s0 EXCEPT !.code = Put(@, idx, 0),
                                         !.accessed = @ \cup {idx}], idx + 1)
              ELSE s0
        s2 == IF ns[r].right # NULL
              THEN printCodes(ns, ns[r].right,
                              [s1 EXCEPT !.code = Put(@, idx, 1),
                                         !.accessed = @ \cup {idx}], idx + 1)
              ELSE s1
    IN  IF isLeaf(ns, r)
        THEN [s2 EXCEPT !.output = Append(@, [data |-> ns[r].data,
                                              code |-> [i \in 1 .. idx |-> Get(s2.code, i - 1)]]),
                        !.accessed = @ \cup (0 .. idx - 1)]
        ELSE s2

----------------------------------------------------------------------------
(* Inputs *)

\* a frequency so large that two of them add up to more than INT_MAX
BigFreq == (INT_MAX \div 2) + 1

\* frequencies: the small ones, and the large one
FreqChoices == (0 .. MaxFreq) \cup {BigFreq}

\* symbols: all distinct, or all the same (duplicate symbols are allowed)
DataChoices(n) == {[i \in 1 .. n |-> Alphabet[i]], [i \in 1 .. n |-> Alphabet[1]]}

NoHeap == createMinHeap(0)

InitLocals ==
    /\ nodes = <<>>
    /\ minHeap = NoHeap
    /\ left = NULL
    /\ right = NULL
    /\ root = NULL
    /\ treeHeight = 0
    /\ code = <<>>
    /\ output = <<>>
    /\ visited = <<>>
    /\ accessed = {}
    /\ extracts = 0
    /\ inserts = 0
    /\ ret = NULL
    /\ oob = {}
    /\ op = "none"

\* before main calls getHuffmanCodes there are no arguments yet
Init ==
    /\ size = 0
    /\ data = <<>>
    /\ freq = <<>>
    /\ InitLocals
    /\ pc = "main"

----------------------------------------------------------------------------
(* getHuffmanCodes(data, freq, size), step by step *)

\* The call getHuffmanCodes(data, freq, size) with a table of 0 .. MaxN entries
Call ==
    /\ pc = "main"
    /\ size' \in 0 .. MaxN
    /\ data' \in DataChoices(size')
    /\ freq' \in [1 .. size' -> FreqChoices]
    /\ pc' = "start"
    /\ UNCHANGED <<nodes, minHeap, left, right, root, treeHeight, code, output,
                   visited, accessed, extracts, inserts, ret, oob, op>>

\* The call of main, line 239
CallDriver ==
    /\ pc = "main"
    /\ size' = Len(DriverData)
    /\ data' = DriverData
    /\ freq' = DriverFreq
    /\ pc' = "start"
    /\ UNCHANGED <<nodes, minHeap, left, right, root, treeHeight, code, output,
                   visited, accessed, extracts, inserts, ret, oob, op>>

\* buildHuffmanTree, line 145
CreateAndBuild ==
    /\ pc = "start"
    /\ nodes' = leafNodes(data, freq, size)
    /\ minHeap' = createAndBuildMinHeap(data, freq, size)
    /\ pc' = "loop"
    /\ UNCHANGED <<data, freq, size, left, right, root, treeHeight, code, output,
                   visited, accessed, extracts, inserts, ret, oob, op>>

\* One extractMin call made at position `from`; the caller goes on at `to`.
\* With size >= 1 the call is defined.  With size <= 0 it reads nodeArray[size-1]
\* (and nodeArray[0] when capacity is 0) outside of the array.
ExtractStep(from, to) ==
    /\ pc = from
    /\ op' = "extract"
    /\ nodes' = nodes
    /\ IF minHeap.size >= 1
       THEN LET e == extractMin(nodes, minHeap)
            IN  /\ minHeap' = e.heap
                /\ ret' = e.ret
                /\ pc' = to
                /\ oob' = oob
       ELSE \/ /\ pc' = "crashed"
               /\ UNCHANGED <<minHeap, ret, oob>>
            \/ \E g1, g2 \in {NULL, GARBAGE} :
                 LET e == extractMinUnderflow(minHeap, g1, g2)
                 IN  /\ minHeap' = e.heap
                     /\ ret' = e.ret
                     /\ oob' = IF 0 \in DOMAIN minHeap.nodeArray THEN oob ELSE oob \cup {0}
                     /\ pc' = "undefined"

\* One insertMinHeap call made at position `from` with the freshly allocated node
\* `temp`; the caller goes on at `to`.  With size < capacity the call is defined.
\* With size >= capacity it stores to nodeArray[size], outside of the array.
InsertStep(from, to, temp) ==
    /\ pc = from
    /\ op' = "insert"
    /\ nodes' = Append(nodes, temp)
    /\ ret' = ret
    /\ IF minHeap.size < minHeap.capacity
       THEN /\ minHeap' = insertMinHeap(nodes', minHeap, Len(nodes'))
            /\ oob' = oob
            /\ pc' = to
       ELSE \/ /\ pc' = "crashed"
               /\ UNCHANGED <<minHeap, oob>>
            \/ /\ minHeap' = insertMinHeap(nodes', minHeap, Len(nodes'))
               /\ oob' = oob \cup {minHeap.size}
               /\ pc' = "undefined"

\* line 152, entered when the loop test of line 150 holds
ExtractLeft ==
    /\ minHeap.size # 1
    /\ ExtractStep("loop", "extractRight")
    /\ left' = ret'
    /\ extracts' = extracts + 1
    /\ UNCHANGED <<data, freq, size, right, root, treeHeight, code, output,
                   visited, accessed, inserts>>

\* line 153
ExtractRight ==
    /\ ExtractStep("extractRight", "merge")
    /\ right' = ret'
    /\ extracts' = extracts + 1
    /\ UNCHANGED <<data, freq, size, left, root, treeHeight, code, output,
                   visited, accessed, inserts>>

\* a merge that links the first extracted node on both sides
mergeNodeSameChild(ns, l, r) ==
    [newMinHeapNode(INTERNAL, IntAdd(ns[l].freq, ns[r].freq))
         EXCEPT !.left = l, !.right = l]

\* a merge that keeps only the left weight
mergeNodeNoSum(ns, l, r) ==
    [newMinHeapNode(INTERNAL, ns[l].freq) EXCEPT !.left = l, !.right = r]

\* a merge that links only the first extracted node
mergeNodeUnary(ns, l, r) ==
    [newMinHeapNode(INTERNAL, IntAdd(ns[l].freq, ns[r].freq)) EXCEPT !.left = l]

\* the node of lines 157-161
mergeNode(ns, l, r) ==
    [newMinHeapNode(INTERNAL, IntAdd(ns[l].freq, ns[r].freq))
         EXCEPT !.left = l, !.right = r]

\* lines 157-164
Merge ==
    /\ InsertStep("merge", "loop", mergeNode(nodes, left, right))
    /\ inserts' = inserts + 1
    /\ UNCHANGED <<data, freq, size, left, right, root, treeHeight, code, output,
                   visited, accessed, extracts>>

\* line 167, reached when the loop test of line 150 fails
FinalExtract ==
    /\ minHeap.size = 1
    /\ ExtractStep("loop", "height")
    /\ root' = ret'
    /\ extracts' = extracts + 1
    /\ UNCHANGED <<data, freq, size, left, right, treeHeight, code, output,
                   visited, accessed, inserts>>

\* lines 222-225
Height ==
    /\ pc = "height"
    /\ treeHeight' = huffmanTreeHeight(nodes, root)
    /\ code' = [i \in 0 .. treeHeight' - 2 |-> GARBAGE]
    /\ pc' = "print"
    /\ UNCHANGED <<data, freq, size, nodes, minHeap, left, right, root, output,
                   visited, accessed, extracts, inserts, ret, oob, op>>

\* line 227
PrintCodes ==
    /\ pc = "print"
    /\ LET st == printCodes(nodes, root,
                            [code |-> code, output |-> <<>>, visited |-> <<>>,
                             accessed |-> {}], 0)
       IN  /\ code' = st.code
           /\ output' = st.output
           /\ visited' = st.visited
           /\ accessed' = st.accessed
    /\ pc' = "done"
    /\ UNCHANGED <<data, freq, size, nodes, minHeap, left, right, root, treeHeight,
                   extracts, inserts, ret, oob, op>>

Next ==
    \/ Call
    \/ CallDriver
    \/ CreateAndBuild
    \/ ExtractLeft
    \/ ExtractRight
    \/ Merge
    \/ FinalExtract
    \/ Height
    \/ PrintCodes

Spec == Init /\ [][Next]_vars

\* the steps of the merge loop of buildHuffmanTree and of its return, lines 150-167
LoopNext ==
    \/ ExtractLeft
    \/ ExtractRight
    \/ Merge
    \/ FinalExtract

\* the scheduling of a sequential program: a step of the merge loop that can be
\* taken is taken
FairSpec == Spec /\ WF_vars(LoopNext)

----------------------------------------------------------------------------
(* The heap on its own: any sequence of insertMinHeap and extractMin calls *)
(* on a heap that createMinHeap returned                                   *)

HeapInit ==
    /\ size \in 0 .. MaxN
    /\ data = <<>>
    /\ freq = <<>>
    /\ nodes = <<>>
    /\ minHeap = createMinHeap(size)
    /\ left = NULL
    /\ right = NULL
    /\ root = NULL
    /\ treeHeight = 0
    /\ code = <<>>
    /\ output = <<>>
    /\ visited = <<>>
    /\ accessed = {}
    /\ extracts = 0
    /\ inserts = 0
    /\ ret = NULL
    /\ oob = {}
    /\ op = "none"
    /\ pc = "heap"

HeapExtract ==
    /\ ExtractStep("heap", "heap")
    /\ UNCHANGED <<data, freq, size, left, right, root, treeHeight, code, output,
                   visited, accessed, extracts, inserts>>

HeapInsert ==
    /\ Len(nodes) < MaxInserts
    /\ \E f \in 0 .. MaxHeapFreq : InsertStep("heap", "heap", newMinHeapNode(INTERNAL, f))
    /\ UNCHANGED <<data, freq, size, left, right, root, treeHeight, code, output,
                   visited, accessed, extracts, inserts>>

HeapNext ==
    \/ HeapExtract
    \/ HeapInsert

HeapSpec == HeapInit /\ [][HeapNext]_vars

----------------------------------------------------------------------------
(* Vocabulary of the properties *)

IsPrefix(a, b) == Len(a) <= Len(b) /\ \A i \in 1 .. Len(a) : a[i] = b[i]

NoDuplicates(seq) == \A i, j \in 1 .. Len(seq) : i # j => seq[i] # seq[j]

\* the leaves among the nodes printCodes was called on, in call order
RECURSIVE LeavesOf(_, _)
LeavesOf(ns, seq) ==
    IF seq = <<>> THEN <<>>
    ELSE IF isLeaf(ns, Head(seq)) THEN <<Head(seq)>> \o LeavesOf(ns, Tail(seq))
         ELSE LeavesOf(ns, Tail(seq))

VisitedLeaves == LeavesOf(nodes, visited)

\* getHuffmanCodes has returned
Returned == pc = "done"

\* buildHuffmanTree has returned its root
TreeBuilt == pc \in {"height", "print", "done"}

\* A cost is hi * BigFreq + lo, kept as the pair: the large frequencies count in
\* hi, the small ones add up in lo, which stays far below BigFreq.
Cost(f, d) == IF f = BigFreq THEN [hi |-> d, lo |-> 0] ELSE [hi |-> 0, lo |-> f * d]

CostAdd(c1, c2) == [hi |-> c1.hi + c2.hi, lo |-> c1.lo + c2.lo]

CostLeq(c1, c2) == c1.hi < c2.hi \/ (c1.hi = c2.hi /\ c1.lo <= c2.lo)

CostMin(C) == CHOOSE c \in C : \A e \in C : CostLeq(c, e)

ZeroCost == [hi |-> 0, lo |-> 0]

\* the sum of the frequencies of the entries S
RECURSIVE SumFreq(_)
SumFreq(S) ==
    IF S = {} THEN ZeroCost
    ELSE LET x == CHOOSE y \in S : TRUE IN CostAdd(Cost(freq[x], 1), SumFreq(S \ {x}))

SetMin(S) == CHOOSE x \in S : \A y \in S : x <= y

\* The least weighted path length of a full binary tree whose leaves are the
\* entries S: every way of splitting S between the two subtrees is tried, and a
\* tree costs the weights below its root (each one level deeper) plus its two
\* subtrees.
RECURSIVE MinCost(_)
MinCost(S) ==
    IF Cardinality(S) <= 1 THEN ZeroCost
    ELSE LET m == SetMin(S)
             splits == {A \in SUBSET S : m \in A /\ A # S}
         IN  CostAdd(SumFreq(S),
                     CostMin({CostAdd(MinCost(A), MinCost(S \ A)) : A \in splits}))

\* sum over the leaves below r of frequency * depth, r being at depth d
RECURSIVE WeightedPathLength(_, _, _)
WeightedPathLength(ns, r, d) ==
    IF r = NULL THEN ZeroCost
    ELSE IF isLeaf(ns, r) THEN Cost(ns[r].freq, d)
    ELSE CostAdd(WeightedPathLength(ns, ns[r].left, d + 1),
                 WeightedPathLength(ns, ns[r].right, d + 1))

\* the sum of the input frequencies fits an int
TotalFits == SumFreq(1 .. size).hi <= 1

\* the heap property of nodeArray[0 .. size-1]
HeapProperty(ns, h) ==
    \A i \in 1 .. h.size - 1 :
        ns[h.nodeArray[i]].freq >= ns[h.nodeArray[CDiv(i - 1, 2)]].freq

\* the length of the code printed for the (only) entry with symbol c
CodeLen(c) == Len(output[CHOOSE k \in 1 .. Len(output) : output[k].data = c].code)

IsDriverInput == size = Len(DriverData) /\ data = DriverData /\ freq = DriverFreq

----------------------------------------------------------------------------
(* C1: with two or more entries, the printed codes are prefix-free: no printed *)
(* code is a prefix of the code printed for another entry.                    *)
C1_PrefixFree ==
    (Returned /\ size >= 2) =>
        \A i, j \in 1 .. Len(output) :
            i # j => ~IsPrefix(output[i].code, output[j].code)

C1_Witness ==
    /\ Returned
    /\ size >= 3
    /\ Len(output) = size
    /\ \E i, j \in 1 .. Len(output) : Len(output[i].code) < Len(output[j].code)

(* C2: with one or more entries, printCodes prints exactly one line per input  *)
(* entry (the k-th line carries the symbol of the k-th leaf reached, and the   *)
(* leaves reached are the n entry nodes, duplicates included), it is called on *)
(* no node twice, and the printed codes are pairwise distinct.                 *)
C2_OneCodePerEntry ==
    (Returned /\ size >= 1) =>
        /\ Len(output) = size
        /\ NoDuplicates(visited)
        /\ Len(VisitedLeaves) = size
        /\ {VisitedLeaves[k] : k \in 1 .. size} = 1 .. size
        /\ \A k \in 1 .. size : output[k].data = data[VisitedLeaves[k]]
        /\ \A i, j \in 1 .. size : i # j => output[i].code # output[j].code

C2_Witness ==
    /\ Returned
    /\ size >= 3
    /\ Len(output) = size
    /\ \A i \in 1 .. size : data[i] = data[1]

(* C3: the weighted path length of the returned tree is the least one of any   *)
(* full binary tree over the same entries, whatever the ties in the heap.      *)
C3_Optimal ==
    (TreeBuilt /\ size >= 1) =>
        WeightedPathLength(nodes, root, 0) = MinCost(1 .. size)

\* the same for the tables whose frequencies add up to at most INT_MAX, where no
\* addition of line 157 wraps around
C3_OptimalInRange ==
    (TreeBuilt /\ size >= 1 /\ TotalFits) =>
        WeightedPathLength(nodes, root, 0) = MinCost(1 .. size)

(* C4: as long as every insertMinHeap call was made with size < capacity and   *)
(* every extractMin call with size > 0, the heap property holds after each     *)
(* call.                                                                       *)
C4_HeapProperty == pc = "heap" => HeapProperty(nodes, minHeap)

C4_Witness ==
    /\ pc = "heap"
    /\ op = "extract"
    /\ minHeap.size >= 3
    /\ Len(nodes) >= 5
    /\ \E i, j \in 0 .. minHeap.size - 1 :
           nodes[minHeap.nodeArray[i]].freq # nodes[minHeap.nodeArray[j]].freq

(* C5: with exactly one entry no merge is made, the returned tree is the one   *)
(* entry node, root and leaf at once, and exactly one code, of length 0, is    *)
(* printed for it.                                                             *)
C5_SingleSymbol ==
    size = 1 =>
        /\ inserts = 0
        /\ Len(nodes) <= 1
        /\ TreeBuilt => (root = 1 /\ isLeaf(nodes, root))
        /\ Returned => output = <<[data |-> data[1], code |-> <<>>]>>

C5_Witness == size = 1 /\ Returned /\ Len(output) = 1 /\ treeHeight = 1

(* C6: for the driver's table the root weighs 100, f gets the shortest code,   *)
(* of length 1 or 2, and a and b get the longest codes, of length 4 each.      *)
C6_DriverTable ==
    (IsDriverInput /\ Returned) =>
        /\ nodes[root].freq = 100
        /\ CodeLen("f") \in {1, 2}
        /\ \A k \in 1 .. Len(output) : Len(output[k].code) >= CodeLen("f")
        /\ CodeLen("a") = 4
        /\ CodeLen("b") = 4
        /\ \A k \in 1 .. Len(output) : Len(output[k].code) <= 4

C6_Witness == IsDriverInput /\ Returned /\ Len(output) = 6 /\ inserts = 5

(* C7: with one or more entries the merge loop of buildHuffmanTree ends and    *)
(* the tree is returned, the heap holds symbolCount - merges nodes at every    *)
(* test of the loop condition, and the loop ends after exactly                 *)
(* symbolCount - 1 merges.                                                     *)
C7_Terminates ==
    /\ (pc = "loop" /\ size >= 1) ~> TreeBuilt
    /\ []((pc = "loop" /\ size >= 1) => minHeap.size = size - inserts)
    /\ []((TreeBuilt /\ size >= 1) => inserts = size - 1)

C7_Witness == TreeBuilt /\ size >= 3 /\ inserts = size - 1 /\ minHeap.size = 0

(* C8: a call with zero entries is rejected at once: no extractMin and no      *)
(* insertMinHeap call is made.                                                 *)
C8_ZeroLengthRejected == size = 0 => (extracts = 0 /\ inserts = 0)

(* C9: extractMin on a heap of size 0 returns no node and leaves the size and  *)
(* the array of the heap as they were.                                         *)
C9_UnderflowRejected ==
    [][(pc = "heap" /\ minHeap.size = 0 /\ op' = "extract")
           => (minHeap' = minHeap /\ ret' = ret /\ oob' = oob)]_vars

(* C10: insertMinHeap on a heap whose size equals its capacity does not store  *)
(* the node: the size stays within the capacity and no slot at an index >=     *)
(* capacity is written.                                                        *)
C10_OverflowRejected ==
    [][(pc = "heap" /\ minHeap.size = minHeap.capacity /\ op' = "insert")
           => (minHeap' = minHeap /\ oob' = oob)]_vars

----------------------------------------------------------------------------
(* Vocabulary of the properties of the heap inside buildHuffmanTree *)

\* buildHuffmanTree has built its heap and the run is still defined
InBuild == pc \in {"loop", "extractRight", "merge", "height", "print", "done"}

\* the nodes held in nodeArray[0 .. size-1]
HeapNodes(h) == {h.nodeArray[i] : i \in 0 .. h.size - 1}

(* C11: with one or more entries the heap of buildHuffmanTree never overflows:  *)
(* 0 <= size <= capacity = n in every state, no slot outside of the array is   *)
(* written, and every insertMinHeap call is made with size <= n - 2, below     *)
(* the capacity.                                                               *)
C11_NoOverflow ==
    size >= 1 =>
        /\ pc \notin {"crashed", "undefined"}
        /\ oob = {}
        /\ InBuild => /\ minHeap.capacity = size
                      /\ 0 <= minHeap.size
                      /\ minHeap.size <= minHeap.capacity
        /\ pc = "merge" => /\ minHeap.size <= size - 2
                           /\ minHeap.size < minHeap.capacity

C11_Witness == pc = "merge" /\ size >= 3 /\ inserts >= 1 /\ minHeap.size = size - inserts - 2

(* C12: with one or more entries no extractMin call of buildHuffmanTree finds   *)
(* the heap empty: the heap holds at least one node at each of the two calls   *)
(* of the loop body and at the final call that returns the root.               *)
C12_NoUnderflow ==
    size >= 1 =>
        /\ pc = "loop" => (IF minHeap.size # 1 THEN minHeap.size >= 2 ELSE minHeap.size >= 1)
        /\ pc = "extractRight" => minHeap.size >= 1
        /\ extracts >= 1 => (ret # NULL /\ ret # GARBAGE)

C12_Witness == pc = "extractRight" /\ size >= 3 /\ extracts >= 3 /\ minHeap.size = 1

(* C13: extractMin on a heap of size s >= 1 returns a node of the heap whose    *)
(* weight is the least of all weights in the heap, leaves size = s - 1, and    *)
(* leaves in the heap exactly the nodes it held before, without the returned   *)
(* one, each once.                                                             *)
C13_ExtractMin ==
    [][(pc = "heap" /\ op' = "extract" /\ minHeap.size >= 1) =>
          /\ pc' = "heap"
          /\ ret' \in HeapNodes(minHeap)
          /\ \A x \in HeapNodes(minHeap) : nodes[ret'].freq <= nodes[x].freq
          /\ minHeap'.size = minHeap.size - 1
          /\ HeapNodes(minHeap') = HeapNodes(minHeap) \ {ret'}
          /\ Cardinality(HeapNodes(minHeap')) = minHeap'.size]_vars

C13_Witness ==
    /\ pc = "heap"
    /\ op = "extract"
    /\ ret \in 1 .. Len(nodes)
    /\ minHeap.size >= 3
    /\ \E x \in HeapNodes(minHeap) : nodes[x].freq > nodes[ret].freq
    /\ \E x \in HeapNodes(minHeap) : nodes[x].freq = nodes[ret].freq

\* c is the sum of a and b (as integers, not as ints that wrap)
SumIs(a, b, c) ==
    IF a >= 0 /\ b >= 0 THEN a <= INT_MAX - b /\ c = a + b
    ELSE IF a < 0 /\ b < 0 THEN a >= ((-INT_MAX) - 1) - b /\ c = a + b
    ELSE c = a + b

\* the step of lines 157-164: a node is allocated and inserted
MergeStep == pc = "merge" /\ pc' = "loop"

\* what the claim C14 says of one step of the merge loop
MergeOrderStep ==
    /\ (pc = "loop" /\ pc' = "extractRight") => left' = ret'
    /\ (pc = "extractRight" /\ pc' = "merge") => right' = ret'
    /\ Len(nodes') >= Len(nodes) /\ SubSeq(nodes', 1, Len(nodes)) = nodes
    /\ MergeStep =>
          LET new == nodes'[Len(nodes')]
          IN  /\ Len(nodes') = Len(nodes) + 1
              /\ new.left = left
              /\ new.right = right
              /\ nodes[left].freq <= nodes[right].freq
              /\ \A x \in HeapNodes(minHeap) :
                     /\ nodes[left].freq <= nodes[x].freq
                     /\ nodes[right].freq <= nodes[x].freq
              /\ SumIs(nodes[left].freq, nodes[right].freq, new.freq)

(* C14: in every merge the first extracted node becomes the left child and the  *)
(* second the right child of the new node; the new node's weight is the sum of *)
(* its children's weights, the left child weighs no more than the right, and   *)
(* at the merge neither child weighs more than a node still in the heap; nodes *)
(* never change once allocated, so this holds of every internal node.          *)
C14_MergeOrder == [][size >= 1 => MergeOrderStep]_vars

\* the same for tables whose total frequency fits an int
C14_MergeOrderInRange == [][(size >= 1 /\ TotalFits) => MergeOrderStep]_vars

(* C15: every node has no child at all (a leaf, allocated for an input entry)   *)
(* or both children (an internal node, allocated by a merge), never exactly    *)
(* one.                                                                        *)
C15_FullBinary ==
    \A k \in 1 .. Len(nodes) :
        IF k <= size
        THEN nodes[k].left = NULL /\ nodes[k].right = NULL /\ nodes[k].data = data[k]
        ELSE /\ nodes[k].left \in 1 .. k - 1
             /\ nodes[k].right \in 1 .. k - 1
             /\ nodes[k].left # nodes[k].right
             /\ nodes[k].data = INTERNAL

C15_Witness == Returned /\ size >= 3 /\ Len(nodes) = 2 * size - 1 /\ ~isLeaf(nodes, root)

\* createAndBuildMinHeap has just returned to buildHuffmanTree
HeapBuilt == pc = "loop" /\ extracts = 0 /\ inserts = 0

\* the indices of a heap of n nodes that have at least one child
InternalIndices(n) == {i \in 0 .. n - 1 : 2 * i + 1 < n}

(* C16: for a table of n >= 1 entries createAndBuildMinHeap yields a heap of    *)
(* size n that holds exactly one leaf per entry, with that entry's symbol and  *)
(* frequency (duplicates kept), and satisfies the heap property at every       *)
(* non-root index; the bottom-up loop of buildMinHeap starts at the last index *)
(* that has a child and runs over every such index down to 0.                  *)
C16_BuildHeap ==
    (size >= 1 /\ HeapBuilt) =>
        /\ minHeap.size = size
        /\ minHeap.capacity = size
        /\ Len(nodes) = size
        /\ \A k \in 1 .. size : nodes[k] = newMinHeapNode(data[k], freq[k])
        /\ HeapNodes(minHeap) = 1 .. size
        /\ HeapProperty(nodes, minHeap)
        /\ InternalIndices(size) \subseteq 0 .. buildStart(minHeap)
        /\ InternalIndices(size) # {} =>
               buildStart(minHeap) = SetMin({-i : i \in InternalIndices(size)}) * (-1)

C16_Witness ==
    /\ HeapBuilt
    /\ size >= 4
    /\ \E k \in 1 .. size - 1 : freq[k] > freq[k + 1]
    /\ \E j, k \in 1 .. size : j # k /\ freq[j] = freq[k]
    /\ minHeap.nodeArray[0] # 1

\* the nodes of the tree below r, r included
RECURSIVE Subtree(_, _)
Subtree(ns, r) ==
    IF r = NULL THEN {}
    ELSE {r} \cup Subtree(ns, ns[r].left) \cup Subtree(ns, ns[r].right)

\* the branch bits on the way from r down to the node t of its tree
RECURSIVE PathBits(_, _, _)
PathBits(ns, r, t) ==
    IF r = t THEN <<>>
    ELSE IF t \in Subtree(ns, ns[r].left)
         THEN <<0>> \o PathBits(ns, ns[r].left, t)
         ELSE <<1>> \o PathBits(ns, ns[r].right, t)

(* C17: the code printed for a leaf is the sequence of branch bits on the way   *)
(* from the root to that leaf, 0 for a left branch and 1 for a right branch,   *)
(* so its length is the depth of the leaf, although all calls of printCodes    *)
(* share one buffer; every leaf of the tree is printed.                        *)
C17_CodeIsPath ==
    (Returned /\ size >= 1) =>
        /\ Len(output) = Len(VisitedLeaves)
        /\ {VisitedLeaves[k] : k \in 1 .. Len(output)} =
               {t \in Subtree(nodes, root) : isLeaf(nodes, t)}
        /\ \A k \in 1 .. Len(output) :
               /\ output[k].data = nodes[VisitedLeaves[k]].data
               /\ output[k].code = PathBits(nodes, root, VisitedLeaves[k])

C17_Witness ==
    /\ Returned
    /\ size >= 4
    /\ \E j, k \in 1 .. Len(output) :
           /\ j < k
           /\ Len(output[j].code) = 3
           /\ Len(output[k].code) <= 2
           /\ output[k].code[1] = 1

(* C18: every index at which printCodes writes or reads the buffer lies in      *)
(* 0 .. treeHeight - 2, for every tree buildHuffmanTree returns; for a tree of *)
(* one node the buffer has no entry and none is accessed.                      *)
C18_CodeInBounds ==
    (Returned /\ size >= 1) =>
        /\ DOMAIN code = 0 .. treeHeight - 2
        /\ accessed \subseteq 0 .. treeHeight - 2
        /\ size = 1 => (treeHeight = 1 /\ accessed = {})

C18_Witness ==
    /\ Returned
    /\ size >= 3
    /\ accessed = 0 .. treeHeight - 2
    /\ \E k \in 1 .. Len(output) : Len(output[k].code) < treeHeight - 1

\* the number of nodes met when walking the links below r
RECURSIVE TreeSize(_, _)
TreeSize(ns, r) ==
    IF r = NULL THEN 0
    ELSE 1 + TreeSize(ns, ns[r].left) + TreeSize(ns, ns[r].right)

\* the links below r form a tree: no node is met twice
IsTree(ns, r) == TreeSize(ns, r) = Cardinality(Subtree(ns, r))

\* the leaves of the tree below r
LeafSet(ns, r) == {t \in Subtree(ns, r) : isLeaf(ns, t)}

\* the weight w of a node as a cost, and a cost with its lo part below 2^30
ToCost(w) == [hi |-> w \div BigFreq, lo |-> w % BigFreq]

Norm(c) == [hi |-> c.hi + (c.lo \div BigFreq), lo |-> c.lo % BigFreq]

\* the sum of the weights of the nodes S
RECURSIVE SumWeights(_, _)
SumWeights(ns, S) ==
    IF S = {} THEN ZeroCost
    ELSE LET x == CHOOSE y \in S : TRUE
         IN  CostAdd(ToCost(ns[x].freq), SumWeights(ns, S \ {x}))

\* what the claim C19 says of a state
ForestState ==
    /\ pc = "loop" =>
          /\ Cardinality(HeapNodes(minHeap)) = minHeap.size
          /\ \A a \in HeapNodes(minHeap) : IsTree(nodes, a)
          /\ \A a, b \in HeapNodes(minHeap) :
                 a # b => Subtree(nodes, a) \cap Subtree(nodes, b) = {}
          /\ UNION {LeafSet(nodes, a) : a \in HeapNodes(minHeap)} = 1 .. size
          /\ Norm(SumWeights(nodes, HeapNodes(minHeap))) = Norm(SumFreq(1 .. size))
    /\ TreeBuilt =>
          /\ IsTree(nodes, root)
          /\ LeafSet(nodes, root) = 1 .. size
          /\ Norm(ToCost(nodes[root].freq)) = Norm(SumFreq(1 .. size))

(* C19: each time the merge loop tests its condition the nodes in the heap are  *)
(* the roots of pairwise disjoint trees whose leaves are together exactly the  *)
(* n input entries, and their weights add up to the sum of the input           *)
(* frequencies; so the returned root weighs the total frequency and every      *)
(* input entry is a leaf of the returned tree.                                 *)
C19_Forest == size >= 1 => ForestState

\* the same for tables whose total frequency fits an int
C19_ForestInRange == (size >= 1 /\ TotalFits) => ForestState

====
